---- MODULE Spec2Model ----
(***************************************************************************)
(* A model of go-tetris: the piece catalog and rotation index              *)
(* (tetris/piece.go), the bag randomizer (tetris/piece.go), and the Game   *)
(* with its event loop (tetris.go).  The Board (its grid, collision test,  *)
(* merge and row clearing), the Vector type and the constants width,       *)
(* height and initialX are not part of the available sources; they are     *)
(* modelled from the specification text, on a grid scaled down to          *)
(* Width x Height.                                                         *)
(***************************************************************************)
EXTENDS Integers, Sequences, FiniteSets, TLC

(***************************************************************************)
(* Bounds of the model.                                                    *)
(***************************************************************************)
\* anchors explored from an initial state
MaxPieces == 1
\* highest prefilled stack of a constructed mid-game board
MaxFill == 4
\* bags drawn after the first
MaxBags == 2
\* rotations applied before they are undone
MaxTurns == 5
\* inputs the producer goroutine classifies
MaxInputs == 3

(***************************************************************************)
(* Board dimensions (board source unavailable: scaled-down values).        *)
(***************************************************************************)
Width == 4
Height == 6
InitialX == (Width - 4) \div 2

(***************************************************************************)
(* The capacity of the event queue (100 in Start; scaled down).            *)
(***************************************************************************)
QueueCap == 2

(***************************************************************************)
(* tetris/piece.go: the catalog.  A kind is an index into tetrisPieces     *)
(* (0-based, as in the Go slice); a color tag is written kind + 1, and 0   *)
(* is the empty cell.                                                      *)
(***************************************************************************)
tetrisPieces ==
  << [name |-> "O", initialLocation |-> <<4, 0>>, color |-> 1, rotations |->
        << {<<0,0>>, <<1,0>>, <<0,1>>, <<1,1>>} >>],
     [name |-> "Z", initialLocation |-> <<3, 0>>, color |-> 2, rotations |->
        << {<<0,0>>, <<1,0>>, <<1,1>>, <<2,1>>},
           {<<1,0>>, <<0,1>>, <<1,1>>, <<0,2>>} >>],
     [name |-> "S", initialLocation |-> <<3, 0>>, color |-> 3, rotations |->
        << {<<1,0>>, <<2,0>>, <<0,1>>, <<1,1>>},
           {<<0,0>>, <<0,1>>, <<1,1>>, <<1,2>>} >>],
     [name |-> "T", initialLocation |-> <<3, 0>>, color |-> 4, rotations |->
        << {<<0,0>>, <<1,0>>, <<2,0>>, <<1,1>>},
           {<<1,0>>, <<0,1>>, <<1,1>>, <<1,2>>},
           {<<1,0>>, <<0,1>>, <<1,1>>, <<2,1>>},
           {<<0,0>>, <<0,1>>, <<1,1>>, <<0,2>>} >>],
     [name |-> "L", initialLocation |-> <<3, -1>>, color |-> 5, rotations |->
        << {<<0,1>>, <<1,1>>, <<2,1>>, <<0,2>>},
           {<<0,0>>, <<1,0>>, <<1,1>>, <<1,2>>},
           {<<2,0>>, <<0,1>>, <<1,1>>, <<2,1>>},
           {<<1,0>>, <<1,1>>, <<1,2>>, <<2,2>>} >>],
     [name |-> "J", initialLocation |-> <<3, -1>>, color |-> 6, rotations |->
        << {<<0,1>>, <<1,1>>, <<2,1>>, <<2,2>>},
           {<<1,0>>, <<1,1>>, <<1,2>>, <<0,2>>},
           {<<0,1>>, <<1,1>>, <<2,1>>, <<0,0>>},
           {<<1,0>>, <<2,0>>, <<1,1>>, <<1,2>>} >>],
     [name |-> "I", initialLocation |-> <<3, -1>>, color |-> 7, rotations |->
        << {<<0,1>>, <<1,1>>, <<2,1>>, <<3,1>>},
           {<<1,0>>, <<1,1>>, <<1,2>>, <<1,3>>} >>] >>

Kinds == 0 .. (Len(tetrisPieces) - 1)

\* len(p.rotations) of catalog entry k
RotationCount(k) == Len(tetrisPieces[k + 1].rotations)

\* Go's % : the remainder takes the sign of the dividend
GoRem(a, b) == IF a >= 0 THEN a % b ELSE 0 - ((0 - a) % b)

(***************************************************************************)
(* Piece.rotate / unrotate / dblrotate on a rotation index r of a piece    *)
(* with n rotations.                                                       *)
(***************************************************************************)
rotateIndex(r, n) == GoRem(r + 1, n)

unrotateIndexNoFix(r, n) == GoRem(r - 1, n)

unrotateIndex(r, n) ==
  LET q == GoRem(r - 1, n) IN IF q < 0 THEN q + n ELSE q

dblrotateIndex(r, n) ==
  LET q == GoRem(r + 2, n) IN IF q < 0 THEN q + n ELSE q

(***************************************************************************)
(* State.                                                                  *)
(***************************************************************************)
VARIABLES
  \* Board
  cells,            \* settled grid: Height rows of Width color tags, top row first
  currentPiece,     \* board.currentPiece: a pointer into game.pieces, as its index
  currentPosition,  \* board.currentPosition
  \* Game
  nextPiece,        \* game.nextPiece: a pointer into game.pieces, as its index
  rotation,         \* game.pieces[k].currentRotation, for every k
  paused, over, score, dropDelayMillis,
  tickerRunning,    \* game.ticker has been started and not stopped
  tickPending,      \* a tick is buffered in game.ticker.C
  liveTickers,      \* tickers started and never stopped
  pc,               \* Start: "loop" (select), "handle" (an event was
                    \* received), "over" (the wait for Quit), "done"
  \* the event queue of Start and its producer goroutine
  eventQueue,       \* the events buffered in the channel, oldest first
  held,             \* the event the producer is sending, or "none" while it
                    \* is in waitForUserEvent
  handling,         \* the event the loop received and is processing
  inputs,           \* history: the events the producer classified, in order
  processed,        \* history: the queued events the loop has processed
  \* history of the run
  budget,           \* anchors still explored: ticks are followed up to
                    \* the select after the MaxPieces-th anchor
  entered,          \* the kinds GeneratePiece returned, in order
  merged,           \* the grid of the last anchor after mergeCurrentPiece
  prevScore,        \* the score when the last anchor began
  rowsCleared,      \* the rowsCleared of the last anchor
  ignored,          \* the last event received was discarded
  \* Bag
  pieceNumber, bagPieces, bagNumber,
  bagState,         \* "zero" (a new Bag value), "ready", "panic", or inside
                    \* a call: "initialize", "refill" (initialize called by
                    \* getPiece), "draw" (getPiece after its initialize)
  shuffleI,         \* rand.Shuffle: the index i of its loop
  drawn,            \* the draws since the last initialize
  \* a Piece under rotation
  tKind, tRot, tOrig, tPending, tPhase,
  tTurns            \* the rotations applied in this round

gameVars ==
  << cells, currentPiece, currentPosition, nextPiece, rotation, paused, over,
     score, dropDelayMillis, tickerRunning, tickPending, liveTickers, pc,
     budget, entered, merged, prevScore, rowsCleared, ignored >>

loopVars == << eventQueue, held, handling, inputs, processed >>

bagVars == << pieceNumber, bagPieces, bagNumber, bagState, shuffleI, drawn >>

pieceVars == << tKind, tRot, tOrig, tPending, tPhase, tTurns >>

vars == << gameVars, loopVars, bagVars, pieceVars >>

(***************************************************************************)
(* The game state as one value, so that a handler is a function from the   *)
(* state (and the random draw it consumes) to the state.                   *)
(***************************************************************************)
G ==
  [ cells |-> cells, currentPiece |-> currentPiece,
    currentPosition |-> currentPosition, nextPiece |-> nextPiece,
    rotation |-> rotation, paused |-> paused, over |-> over, score |-> score,
    dropDelayMillis |-> dropDelayMillis, tickerRunning |-> tickerRunning,
    tickPending |-> tickPending, liveTickers |-> liveTickers,
    budget |-> budget, entered |-> entered, merged |-> merged,
    prevScore |-> prevScore, rowsCleared |-> rowsCleared ]

Commit(g) ==
  /\ cells' = g.cells
  /\ currentPiece' = g.currentPiece
  /\ currentPosition' = g.currentPosition
  /\ nextPiece' = g.nextPiece
  /\ rotation' = g.rotation
  /\ paused' = g.paused
  /\ over' = g.over
  /\ score' = g.score
  /\ dropDelayMillis' = g.dropDelayMillis
  /\ tickerRunning' = g.tickerRunning
  /\ tickPending' = g.tickPending
  /\ liveTickers' = g.liveTickers
  /\ budget' = g.budget
  /\ entered' = g.entered
  /\ merged' = g.merged
  /\ prevScore' = g.prevScore
  /\ rowsCleared' = g.rowsCleared

(***************************************************************************)
(* Board (modelled from the specification, sections 3 and 4.3).            *)
(***************************************************************************)
plus(a, b) == << a[1] + b[1], a[2] + b[2] >>

emptyRow == [x \in 1 .. Width |-> 0]

newBoard == [y \in 1 .. Height |-> emptyRow]

\* Piece.instance of the falling piece: the rotation index is read from the
\* catalog entry the board points to
instance(g) ==
  tetrisPieces[g.currentPiece + 1].rotations[g.rotation[g.currentPiece] + 1]

\* the absolute cells of the falling piece if it stood at position
occupied(g, position) == { plus(position, p) : p \in instance(g) }

\* v is a settled cell of grid c
settled(c, v) ==
  /\ v[1] >= 0 /\ v[1] < Width /\ v[2] >= 0 /\ v[2] < Height
  /\ c[v[2] + 1][v[1] + 1] # 0

\* side bounds, lower bound and settled cells; no upper bound
checkCollision(g, position) ==
  \E v \in occupied(g, position) :
    v[1] < 0 \/ v[1] >= Width \/ v[2] >= Height \/ settled(g.cells, v)

currentPieceInCollision(g) == checkCollision(g, g.currentPosition)

\* the bool moveIfPossible returns
canMove(g, translation) ==
  ~checkCollision(g, plus(g.currentPosition, translation))

moveIfPossible(g, translation) ==
  IF canMove(g, translation)
  THEN [g EXCEPT !.currentPosition = plus(@, translation)]
  ELSE g

mergeCurrentPiece(g) ==
  [g EXCEPT !.cells =
     [y \in 1 .. Height |->
        [x \in 1 .. Width |->
           IF << x - 1, y - 1 >> \in occupied(g, g.currentPosition)
           THEN tetrisPieces[g.currentPiece + 1].color
           ELSE g.cells[y][x]]]]

fullRow(row) == \A x \in 1 .. Width : row[x] # 0

\* the indices of the full rows, top to bottom
clearedRows(c) ==
  SelectSeq([i \in 1 .. Height |-> i - 1], LAMBDA y : fullRow(c[y + 1]))

\* keep the rows that are not full, in order, under fresh empty rows
clearRows(c) ==
  LET kept == SelectSeq(c, LAMBDA row : ~fullRow(row))
  IN  [i \in 1 .. (Height - Len(kept)) |-> emptyRow] \o kept

(***************************************************************************)
(* Game (tetris.go).                                                       *)
(***************************************************************************)
\* rand.Intn(n)
RandIntn(n) == 0 .. (n - 1)

\* GeneratePiece, given the outcome i of rand.Intn(len(game.pieces)):
\* the pointer &game.pieces[i]
GeneratePiece(i) == i

dropDelayNoFloor(s) == 800 - (s \div 5)

\* the interval startTicker computes from the score
dropDelayFor(s) ==
  LET d == 800 - (s \div 5) IN IF d < 200 THEN 200 ELSE d

startTicker(g) ==
  [g EXCEPT !.dropDelayMillis = dropDelayFor(g.score),
            !.tickerRunning = TRUE,
            !.tickPending = FALSE,
            !.liveTickers = @ + 1]

\* Ticker.Stop: no more ticks are sent; a tick already in the channel stays
stopTicker(g) ==
  [g EXCEPT !.tickerRunning = FALSE,
            !.liveTickers = IF g.tickerRunning THEN @ - 1 ELSE @]

RECURSIVE Pow2(_)
Pow2(n) == IF n <= 0 THEN 1 ELSE 2 * Pow2(n - 1)

PointsLinear(n) == 100 * n

\* int(100 * math.Pow(2, float64(n-1))), n >= 1
Points(n) == 100 * Pow2(n - 1)

\* Piece.rotate and Piece.unrotate of the falling piece: they write the
\* catalog entry the board points to
rotate(g) ==
  [g EXCEPT !.rotation[g.currentPiece] =
              rotateIndex(@, RotationCount(g.currentPiece))]

unrotate(g) ==
  [g EXCEPT !.rotation[g.currentPiece] =
              unrotateIndex(@, RotationCount(g.currentPiece))]

bringInNextPieceNoCheck(g, i) ==
  [g EXCEPT !.currentPiece = g.nextPiece,
            !.currentPosition = << InitialX, 0 >>,
            !.nextPiece = GeneratePiece(i),
            !.rotation[GeneratePiece(i)] = 0,
            !.entered = Append(@, GeneratePiece(i))]

\* anchor, lines 240-249: bring in the next piece
bringInNextPiece(g, i) ==
  LET s == [g EXCEPT !.currentPiece = g.nextPiece,
                     !.currentPosition = << InitialX, 0 >>,
                     !.nextPiece = GeneratePiece(i),
                     !.rotation[GeneratePiece(i)] = 0,
                     !.entered = Append(@, GeneratePiece(i))]
  IN  IF currentPieceInCollision(s) THEN [s EXCEPT !.over = TRUE] ELSE s

clearAndScoreKeepRows(g, rows) ==
  startTicker([stopTicker(g) EXCEPT !.score = @ + Points(Len(rows))])

\* anchor, lines 209-238: the rows are cleared and scored
clearAndScore(g, rows) ==
  startTicker([stopTicker(g) EXCEPT !.cells = clearRows(g.cells),
                                    !.score = @ + Points(Len(rows))])

anchorSkipsSingleRow(g, i) ==
  LET m    == mergeCurrentPiece(g)
      rows == clearedRows(m.cells)
      c    == IF Len(rows) > 1 THEN clearAndScore(m, rows) ELSE m
  IN  bringInNextPiece([c EXCEPT !.merged = m.cells,
                                 !.prevScore = g.score,
                                 !.rowsCleared = rows,
                                 !.budget = @ - 1], i)

anchor(g, i) ==
  LET m    == mergeCurrentPiece(g)
      rows == clearedRows(m.cells)
      c    == IF Len(rows) > 0 THEN clearAndScore(m, rows) ELSE m
  IN  bringInNextPiece([c EXCEPT !.merged = m.cells,
                                 !.prevScore = g.score,
                                 !.rowsCleared = rows,
                                 !.budget = @ - 1], i)

translationOf(where) ==
  CASE where = "Down"  -> << 0, 1 >>
    [] where = "Left"  -> << -1, 0 >>
    [] where = "Right" -> << 1, 0 >>
    [] OTHER           -> << 0, 0 >>

MoveUnchecked(g, where, i) ==
  IF where = "Down" /\ ~canMove(g, translationOf(where))
  THEN anchor(g, i)
  ELSE [g EXCEPT !.currentPosition = plus(@, translationOf(where))]

Move(g, where, i) ==
  IF where = "Down" /\ ~canMove(g, translationOf(where))
  THEN anchor(g, i)
  ELSE moveIfPossible(g, translationOf(where))

dropOnce(g) == moveIfPossible(g, << 0, 1 >>)

RECURSIVE dropAll(_)
dropAll(g) ==
  IF canMove(g, << 0, 1 >>) THEN dropAll(moveIfPossible(g, << 0, 1 >>)) ELSE g

QuickDrop(g, i) == anchor(dropAll(g), i)

RotateNoRollback(g) == rotate(g)

Rotate(g) ==
  LET r == rotate(g) IN IF currentPieceInCollision(r) THEN unrotate(r) ELSE r

PauseToggleNoStop(g) ==
  [(IF g.paused THEN startTicker(g) ELSE g) EXCEPT !.paused = ~g.paused]

PauseToggle(g) ==
  [(IF g.paused THEN startTicker(g) ELSE stopTicker(g)) EXCEPT
      !.paused = ~g.paused]

(***************************************************************************)
(* Start: the event loop.                                                  *)
(***************************************************************************)
GameEvents ==
  { "MoveLeft", "MoveRight", "MoveDown", "Rotate", "QuickDrop", "Pause",
    "Quit", "Redraw" }

dispatchPausedRotates(g, event) ==
  CASE event = "Pause"  -> PauseToggle(g)
    [] event = "Rotate" -> Rotate(g)
    [] OTHER            -> g

\* the switch of the loop body on a paused game, lines 101-110
dispatchPaused(g, event) ==
  IF event = "Pause" THEN PauseToggle(g) ELSE g

\* the switch of the loop body on a running game, lines 112-129
dispatchRunning(g, event, i) ==
  CASE event = "MoveLeft"  -> Move(g, "Left", i)
    [] event = "MoveRight" -> Move(g, "Right", i)
    [] event = "MoveDown"  -> Move(g, "Down", i)
    [] event = "QuickDrop" -> QuickDrop(g, i)
    [] event = "Rotate"    -> Rotate(g)
    [] event = "Pause"     -> PauseToggle(g)
    [] OTHER               -> g

dispatch(g, event, i) ==
  IF g.paused THEN dispatchPaused(g, event) ELSE dispatchRunning(g, event, i)

pcAfterNoBreak(g, event) == IF event = "Quit" THEN "done" ELSE "loop"

\* where Start stands after an event: returned on Quit, out of the loop once
\* the game is over, else at the select again
pcAfter(g, event) ==
  IF event = "Quit" THEN "done" ELSE IF g.over THEN "over" ELSE "loop"

\* the event is one the paused switch has no case for
discarded(g, event) ==
  g.paused /\ event \notin { "Pause", "Quit", "Redraw" }

\* the outcomes of rand.Intn the handling of event consumes
draws(g, event) ==
  IF /\ ~g.paused
     /\ \/ event = "QuickDrop"
        \/ event = "MoveDown" /\ ~canMove(g, << 0, 1 >>)
  THEN RandIntn(Len(tetrisPieces))
  ELSE { 0 }

loopBody(g, event) ==
  \E i \in draws(g, event) :
    LET h == dispatch(g, event, i)
    IN  /\ Commit(h)
        /\ pc' = pcAfter(h, event)
        /\ ignored' = IF event = "Redraw" THEN ignored ELSE discarded(g, event)

\* case event = <-eventQueue: an input is classified, queued and received
UserEvent ==
  /\ pc = "loop" /\ budget > 0
  /\ \E event \in GameEvents : loopBody(G, event)
  /\ UNCHANGED << bagVars, pieceVars, loopVars >>

\* the ticker sends a tick unless one is still in its channel (nothing
\* reads the channel once Start has left the loop)
TickerFire ==
  /\ pc \in { "loop", "handle" } /\ budget > 0
  /\ tickerRunning /\ ~tickPending
  /\ tickPending' = TRUE
  /\ UNCHANGED << cells, currentPiece, currentPosition, nextPiece, rotation,
                  paused, over, score, dropDelayMillis, tickerRunning,
                  liveTickers, pc, budget, entered, merged, prevScore,
                  rowsCleared, ignored, bagVars, pieceVars, loopVars >>

\* case <-game.ticker.C: event = MoveDown
LoopTick ==
  /\ pc = "loop" /\ budget > 0
  /\ tickPending
  /\ loopBody([G EXCEPT !.tickPending = FALSE], "MoveDown")
  /\ UNCHANGED << bagVars, pieceVars, loopVars >>

\* for waitForUserEvent() != Quit {}
OverWait ==
  /\ pc = "over"
  /\ \E event \in GameEvents :
       /\ pc' = IF event = "Quit" THEN "done" ELSE "over"
       /\ ignored' = (event # "Quit")
  /\ UNCHANGED << cells, currentPiece, currentPosition, nextPiece, rotation,
                  paused, over, score, dropDelayMillis, tickerRunning,
                  tickPending, liveTickers, budget, entered, merged,
                  prevScore, rowsCleared, bagVars, pieceVars, loopVars >>

NextGame == UserEvent \/ TickerFire \/ LoopTick \/ OverWait

(***************************************************************************)
(* Initial states.                                                         *)
(***************************************************************************)
\* the subsystems a specification leaves alone
noEvent == [event |-> "none", queued |-> FALSE]

LoopIdle ==
  /\ eventQueue = << >> /\ held = "none" /\ handling = noEvent
  /\ inputs = << >> /\ processed = << >>

BagIdle ==
  /\ pieceNumber = 0 /\ bagPieces = << >> /\ bagNumber = 0
  /\ bagState = "zero" /\ shuffleI = 0 /\ drawn = << >>

PieceIdle ==
  /\ tKind = 0 /\ tRot = 0 /\ tOrig = 0 /\ tPending = 0 /\ tPhase = "up"
  /\ tTurns = 0

\* the state NewGame returns, on grid c with score s
gameOn(c, s, first, second) ==
  startTicker(
    [ cells |-> c, currentPiece |-> GeneratePiece(first),
      currentPosition |-> << InitialX, 0 >>,
      nextPiece |-> GeneratePiece(second),
      rotation |-> [k \in Kinds |-> 0], paused |-> FALSE, over |-> FALSE,
      score |-> s, dropDelayMillis |-> 0, tickerRunning |-> FALSE,
      tickPending |-> FALSE, liveTickers |-> 0, budget |-> 0,
      entered |-> << GeneratePiece(first), GeneratePiece(second) >>,
      merged |-> c, prevScore |-> s, rowsCleared |-> << >> ])

NewGame(first, second) == gameOn(newBoard, 0, first, second)

holds(g) ==
  /\ cells = g.cells
  /\ currentPiece = g.currentPiece
  /\ currentPosition = g.currentPosition
  /\ nextPiece = g.nextPiece
  /\ rotation = g.rotation
  /\ paused = g.paused
  /\ over = g.over
  /\ score = g.score
  /\ dropDelayMillis = g.dropDelayMillis
  /\ tickerRunning = g.tickerRunning
  /\ tickPending = g.tickPending
  /\ liveTickers = g.liveTickers
  /\ entered = g.entered
  /\ merged = g.merged
  /\ prevScore = g.prevScore
  /\ rowsCleared = g.rowsCleared

Init ==
  /\ \E first, second \in RandIntn(Len(tetrisPieces)) :
       holds(NewGame(first, second))
  /\ budget = MaxPieces
  /\ pc = "loop"
  /\ ignored = FALSE
  /\ LoopIdle /\ BagIdle /\ PieceIdle

Spec == Init /\ [][NextGame]_vars

(***************************************************************************)
(* Constructed mid-game boards: the bottom h rows are settled except for   *)
(* a well in the column a piece rotated at its spawn position falls into;  *)
(* with a gap, the second of these rows has a second hole beside the well. *)
(* Scores are sums of awards.                                              *)
(***************************************************************************)
WellX == InitialX + 1

midGrid(h, gap) ==
  [y \in 1 .. Height |->
     [x \in 1 .. Width |->
        IF y <= Height - h THEN 0
        ELSE IF x - 1 = WellX THEN 0
        ELSE IF gap /\ y = Height - 1 /\ x - 1 = WellX + 1 THEN 0
        ELSE 7]]

MidGrids == { midGrid(h, gap) : h \in 0 .. MaxFill, gap \in BOOLEAN }

MidScores == { 400, 3200 }

InitMid ==
  /\ \E c \in MidGrids, s \in MidScores :
       \E first, second \in RandIntn(Len(tetrisPieces)) :
         /\ holds(gameOn(c, s, first, second))
         /\ ~currentPieceInCollision(gameOn(c, s, first, second))
  /\ budget = MaxPieces
  /\ pc = "loop"
  /\ ignored = FALSE
  /\ LoopIdle /\ BagIdle /\ PieceIdle

SpecMid == InitMid /\ [][NextGame]_vars

(***************************************************************************)
(* Start with its event queue.  The producer goroutine (lines 86-90)       *)
(* classifies one input after the other and sends each into the channel;   *)
(* the loop receives an event from the channel or a tick and then handles  *)
(* it, so that the producer runs on while an event is handled, the         *)
(* row-clear animation of anchor included.  After the loop, Start itself   *)
(* calls waitForUserEvent while the producer is still running: an input    *)
(* is returned to one of the two callers.  Ticks are followed up to the    *)
(* MaxPieces-th anchor, queued events as long as there are any.            *)
(***************************************************************************)
enqueueFirst(q, e) == << e >> \o q

\* eventQueue <- e
enqueue(q, e) == Append(q, e)

\* waitForUserEvent returns to the producer goroutine
ProducerPoll ==
  /\ pc # "done"
  /\ held = "none" /\ Len(inputs) < MaxInputs
  /\ \E event \in GameEvents :
       /\ held' = event
       /\ inputs' = Append(inputs, event)
  /\ UNCHANGED << gameVars, eventQueue, handling, processed, bagVars,
                  pieceVars >>

\* eventQueue <- ...: the send blocks while the channel is full
ProducerSend ==
  /\ pc # "done"
  /\ held # "none" /\ Len(eventQueue) < QueueCap
  /\ eventQueue' = enqueue(eventQueue, held)
  /\ held' = "none"
  /\ UNCHANGED << gameVars, handling, inputs, processed, bagVars, pieceVars >>

\* case event = <-eventQueue
LoopReceive ==
  /\ pc = "loop" /\ eventQueue # << >>
  /\ handling' = [event |-> Head(eventQueue), queued |-> TRUE]
  /\ eventQueue' = Tail(eventQueue)
  /\ pc' = "handle"
  /\ UNCHANGED << cells, currentPiece, currentPosition, nextPiece, rotation,
                  paused, over, score, dropDelayMillis, tickerRunning,
                  tickPending, liveTickers, budget, entered, merged,
                  prevScore, rowsCleared, ignored, held, inputs, processed,
                  bagVars, pieceVars >>

\* case <-game.ticker.C: event = MoveDown
LoopReceiveTick ==
  /\ pc = "loop" /\ budget > 0
  /\ tickPending
  /\ tickPending' = FALSE
  /\ handling' = [event |-> "MoveDown", queued |-> FALSE]
  /\ pc' = "handle"
  /\ UNCHANGED << cells, currentPiece, currentPosition, nextPiece, rotation,
                  paused, over, score, dropDelayMillis, tickerRunning,
                  liveTickers, budget, entered, merged, prevScore,
                  rowsCleared, ignored, eventQueue, held, inputs, processed,
                  bagVars, pieceVars >>

\* the body of the loop on the event received, lines 99-137
LoopHandle ==
  /\ pc = "handle"
  /\ loopBody(G, handling.event)
  /\ processed' = IF handling.queued
                  THEN Append(processed, handling.event) ELSE processed
  /\ handling' = noEvent
  /\ UNCHANGED << eventQueue, held, inputs, bagVars, pieceVars >>

NextLoop ==
  \/ ProducerPoll \/ ProducerSend
  \/ LoopReceive \/ LoopReceiveTick \/ LoopHandle
  \/ TickerFire \/ OverWait

\* a game in progress on a stack that leaves the two top rows free; the
\* falling piece is the I, which completes a row where it enters and four
\* in the well
InitLoop ==
  /\ \E first \in { Len(tetrisPieces) - 1 }, second \in RandIntn(Len(tetrisPieces)) :
       /\ holds(gameOn(midGrid(Height - 2, FALSE), 0, first, second))
       /\ ~currentPieceInCollision(
            gameOn(midGrid(Height - 2, FALSE), 0, first, second))
  /\ budget = MaxPieces
  /\ pc = "loop"
  /\ ignored = FALSE
  /\ LoopIdle /\ BagIdle /\ PieceIdle

SpecLoop == InitLoop /\ [][NextLoop]_vars

(***************************************************************************)
(* Bag (tetris/piece.go).  rand.Shuffle(n, swap) runs i from n-1 down to 1 *)
(* and swaps i with a random j in 0..i; each swap is a step.               *)
(***************************************************************************)
\* the swap callback of shuffle, on Go indices i and j
swapNoBack(p, i, j) == [p EXCEPT ![i + 1] = p[j + 1]]

swap(p, i, j) == [p EXCEPT ![i + 1] = p[j + 1], ![j + 1] = p[i + 1]]

\* initialize up to the loop of rand.Shuffle
beginInitialize(caller) ==
  /\ pieceNumber' = 6
  /\ bagPieces' = << 0, 1, 2, 3, 4, 5, 6 >>
  /\ shuffleI' = Len(bagPieces') - 1
  /\ bagState' = caller
  /\ drawn' = << >>
  /\ UNCHANGED bagNumber

\* a new Bag value is initialized by its owner
Initialize ==
  /\ bagState = "zero"
  /\ beginInitialize("initialize")
  /\ UNCHANGED << gameVars, pieceVars, loopVars >>

\* getPiece on an exhausted bag: it calls initialize
GetPieceRefill ==
  /\ bagState = "ready" /\ pieceNumber < 0
  /\ bagNumber < MaxBags
  /\ beginInitialize("refill")
  /\ UNCHANGED << gameVars, pieceVars, loopVars >>

\* one iteration of rand.Shuffle; after the last, initialize returns, and
\* getPiece increments bagNumber
ShuffleSwap ==
  /\ bagState \in { "initialize", "refill" }
  /\ \E j \in RandIntn(shuffleI + 1) : bagPieces' = swap(bagPieces, shuffleI, j)
  /\ shuffleI' = shuffleI - 1
  /\ bagState' = IF shuffleI' > 0 THEN bagState
                 ELSE IF bagState = "refill" THEN "draw" ELSE "ready"
  /\ bagNumber' = IF shuffleI' = 0 /\ bagState = "refill"
                  THEN bagNumber + 1 ELSE bagNumber
  /\ UNCHANGED << pieceNumber, drawn, gameVars, pieceVars, loopVars >>

\* getPiece, lines 49-52
GetPieceDraw ==
  /\ \/ bagState = "draw"
     \/ bagState = "ready" /\ pieceNumber >= 0
  /\ drawn' = Append(drawn, bagPieces[pieceNumber + 1])
  /\ pieceNumber' = pieceNumber - 1
  /\ bagState' = "ready"
  /\ UNCHANGED << bagPieces, bagNumber, shuffleI, gameVars, pieceVars, loopVars >>

\* getPiece on a new Bag value: pieceNumber is 0 and pieces is nil, so
\* b.pieces[0] is out of range
GetPieceZero ==
  /\ bagState = "zero"
  /\ bagState' = "panic"
  /\ UNCHANGED << pieceNumber, bagPieces, bagNumber, shuffleI, drawn,
                  gameVars, pieceVars, loopVars >>

NextBag ==
  Initialize \/ GetPieceRefill \/ ShuffleSwap \/ GetPieceDraw \/ GetPieceZero

GameIdle ==
  /\ holds(NewGame(0, 0))
  /\ budget = 0 /\ pc = "done" /\ ignored = FALSE
  /\ LoopIdle

InitBag == BagIdle /\ GameIdle /\ PieceIdle

SpecBag == InitBag /\ [][NextBag]_vars

(***************************************************************************)
(* A Piece under rotate, unrotate and dblrotate: tPending rotations are    *)
(* applied and then undone; tOrig is the index they started from.          *)
(***************************************************************************)
TRotate ==
  /\ tPhase = "up" /\ tPending < MaxTurns
  /\ tRot' = rotateIndex(tRot, RotationCount(tKind))
  /\ tPending' = tPending + 1
  /\ tTurns' = tTurns + 1
  /\ UNCHANGED << tKind, tOrig, tPhase, gameVars, bagVars, loopVars >>

TUnrotate ==
  /\ tPending > 0
  /\ tRot' = unrotateIndex(tRot, RotationCount(tKind))
  /\ tPending' = tPending - 1
  /\ tPhase' = "down"
  /\ UNCHANGED << tKind, tOrig, tTurns, gameVars, bagVars, loopVars >>

\* with nothing to undo, any of the three starts a new round
TFree ==
  /\ tPending = 0
  /\ \E r \in { rotateIndex(tRot, RotationCount(tKind)),
                unrotateIndex(tRot, RotationCount(tKind)),
                dblrotateIndex(tRot, RotationCount(tKind)) } :
       tRot' = r /\ tOrig' = r
  /\ tPhase' = "up"
  /\ tTurns' = 0
  /\ UNCHANGED << tKind, tPending, gameVars, bagVars, loopVars >>

NextPiece == TRotate \/ TUnrotate \/ TFree

InitPiece ==
  /\ tKind \in Kinds
  /\ tRot \in 0 .. (RotationCount(tKind) - 1)
  /\ tOrig = tRot /\ tPending = 0 /\ tPhase = "up" /\ tTurns = 0
  /\ GameIdle /\ BagIdle

SpecPiece == InitPiece /\ [][NextPiece]_vars

(***************************************************************************)
(* Properties.                                                             *)
(***************************************************************************)
Distinct(seq) ==
  \A a, b \in 1 .. Len(seq) : a # b => seq[a] # seq[b]

Range(seq) == { seq[a] : a \in 1 .. Len(seq) }

\* the full rows of grid c, by row number (1 is the top row)
FullRowsOf(c) == { y \in 1 .. Height : \A x \in 1 .. Width : c[y][x] # 0 }

\* the rows of the last anchor's merged grid that were full
lastFull == FullRowsOf(merged)

ScoreTable(k) ==
  CASE k = 0 -> 0 [] k = 1 -> 100 [] k = 2 -> 200 [] k = 3 -> 400
    [] k = 4 -> 800 [] OTHER -> -1

\* the falling piece overlaps a settled cell
Overlaps ==
  \E p \in tetrisPieces[currentPiece + 1].rotations[rotation[currentPiece] + 1] :
    LET x == currentPosition[1] + p[1]
        y == currentPosition[2] + p[2]
    IN  /\ x \in 0 .. (Width - 1) /\ y \in 0 .. (Height - 1)
        /\ cells[y + 1][x + 1] # 0

\* d is grid m without its full rows: the other rows keep their order, each
\* moved down by the number of full rows below it, under empty rows
IsClearedImage(d, m) ==
  /\ DOMAIN d = 1 .. Height
  /\ \A y \in (1 .. Height) \ FullRowsOf(m) :
       d[y + Cardinality({ f \in FullRowsOf(m) : f > y })] = m[y]
  /\ \A y \in 1 .. Cardinality(FullRowsOf(m)) :
       \A x \in 1 .. Width : d[y][x] = 0

\* C1: counted from an initialize, the draws of a bag are pairwise distinct
\* kind indices in 0..6, and seven draws are all seven kinds
C1_SevenBag ==
  bagState = "ready" =>
    /\ Len(drawn) = 6 - pieceNumber
    /\ Len(drawn) <= 7
    /\ Distinct(drawn)
    /\ Range(drawn) \subseteq 0 .. 6
    /\ (Len(drawn) = 7 => Range(drawn) = 0 .. 6)

C1_Witness == bagState = "ready" /\ bagNumber = MaxBags /\ Len(drawn) = 7

\* C2: the kinds that enter play never hold the same kind three times in a
\* row (as they would not if they were drawn from the bag)
C2_NoTripleRepeat ==
  \A a \in 1 .. (Len(entered) - 2) :
    ~(entered[a] = entered[a + 1] /\ entered[a + 1] = entered[a + 2])

\* C3: the score is the score at the start of the last anchor plus
\* 0/100/200/400/800 for the 0/1/2/3/4 rows that anchor completed; nothing
\* else changes it
C3_ScoringTable == score = prevScore + ScoreTable(Cardinality(lastFull))

C3_Witness ==
  /\ budget < MaxPieces
  /\ Cardinality(lastFull) = 4
  /\ score = prevScore + 800

\* C4: at the select of the loop, with the game not paused, the gravity
\* interval is max(200, 800 - score/5)
C4_SpeedCurve ==
  pc = "loop" /\ ~paused =>
    dropDelayMillis = IF score >= 3000 THEN 200 ELSE 800 - (score \div 5)

C4_Witness ==
  /\ pc = "loop" /\ ~paused /\ budget < MaxPieces
  /\ score = 4000 /\ dropDelayMillis = 200

\* C5: an anchor sets the game-over flag exactly when the piece it brings
\* into play overlaps a settled cell, and either way the grid is the merged
\* grid without its full rows and the score the one the rows award
C5_GameOverOnSpawn ==
  [][budget' < budget =>
       /\ over' = Overlaps'
       /\ IsClearedImage(cells', merged')
       /\ score' = score + ScoreTable(Cardinality(lastFull'))]_vars

C5_Witness == over /\ pc = "over" /\ budget < MaxPieces /\ Overlaps

\* C6: a step of a paused game leaves the grid, the score, the falling
\* piece, its position, the rotation indices, the lookahead and the
\* game-over flag as they were; it keeps waiting, unpauses or returns
C6_PausedFrame ==
  [][paused /\ pc = "loop" =>
       /\ UNCHANGED << cells, score, currentPiece, currentPosition, rotation,
                       nextPiece, over >>
       /\ pc' \in { "loop", "done" }]_vars

C6_Witness == paused /\ pc = "loop" /\ ignored /\ ~tickPending

\* C7: once the game is over it stays over, Start has left the loop, and no
\* step changes the grid, the score, the falling piece, the lookahead or
\* the pause flag; Start can only return
C7_OverIsTerminal ==
  [][/\ over' => pc' \in { "over", "done" }
     /\ over =>
          /\ over'
          /\ UNCHANGED << cells, score, currentPiece, currentPosition,
                          rotation, nextPiece, paused >>]_vars

C7_Witness == over /\ pc = "over" /\ ignored

\* C8: the rotation index stays within the rotations of its kind, and once
\* as many unrotate as rotate calls were made it is back where it started
C8_RotationIndex ==
  /\ tRot \in 0 .. (RotationCount(tKind) - 1)
  /\ tPending = 0 => tRot = tOrig

C8_Witness ==
  /\ tPhase = "down" /\ tPending = 0 /\ tTurns = MaxTurns
  /\ RotationCount(tKind) = 4 /\ tOrig = 0

\* C9: the grid is the last anchor's merged grid without its full rows, at
\* full height: the rows that were not full keep their order, each moved
\* down by the number of full rows below it, under empty rows
C9_RowClearing == IsClearedImage(cells, merged)

\* full rows both above and below a row that stays
C9_Witness ==
  \E y \in 2 .. (Height - 1) :
    /\ y \notin lastFull /\ (y - 1) \in lastFull /\ (y + 1) \in lastFull
    /\ \E x \in 1 .. Width : merged[y][x] # 0

\* C10: a step that keeps the lookahead piece keeps its rotation index
C10_LookaheadRotationKept ==
  [][nextPiece' = nextPiece /\ budget' = budget =>
       rotation'[nextPiece] = rotation[nextPiece]]_vars

\* C11: no call of getPiece fails: wherever getPiece reads b.pieces, the
\* index b.pieceNumber is within the seven entries of the permutation, on a
\* new Bag value too
C11_DrawNeverFails ==
  /\ bagState # "panic"
  /\ bagState = "draw" \/ (bagState = "ready" /\ pieceNumber >= 0) =>
       /\ Len(bagPieces) = 7
       /\ pieceNumber \in 0 .. 6
       /\ bagPieces[pieceNumber + 1] \in 0 .. 6

\* C12: the piece an anchor brings into play has rotation index 0
C12_SpawnRotationZero ==
  [][budget' < budget => rotation'[currentPiece'] = 0]_vars

\* the spawn offset of kind k in the catalog
initialLocationOf(k) == tetrisPieces[k + 1].initialLocation

\* C13: the piece an anchor brings into play stands at the spawn offset of
\* its kind
C13_SpawnAtInitialLocation ==
  [][budget' < budget =>
       currentPosition' = initialLocationOf(currentPiece')]_vars

\* a piece of kind k at rotation index r and position pos on grid c leaves
\* the grid at a side or at the bottom, or covers a settled cell
Blocked(c, k, r, pos) ==
  \E p \in tetrisPieces[k + 1].rotations[r + 1] :
    LET x == pos[1] + p[1]
        y == pos[2] + p[2]
    IN  \/ x < 0 \/ x > Width - 1 \/ y > Height - 1
        \/ y >= 0 /\ c[y + 1][x + 1] # 0

\* the state a Rotate event leaves when the loop receives it now
afterRotate == dispatch(G, "Rotate", 0)

\* C14: a Rotate event either advances the rotation index of the falling
\* piece, which then does not collide at its unchanged position, or leaves
\* rotation index and position exactly as they were; it never moves the
\* piece and leaves the grid, the score, the lookahead, the falling piece's
\* kind and the other kinds' indices alone
C14_RotateRollback ==
  pc = "loop" =>
    /\ afterRotate.currentPosition = currentPosition
    /\ afterRotate.cells = cells
    /\ afterRotate.score = score
    /\ afterRotate.nextPiece = nextPiece
    /\ afterRotate.currentPiece = currentPiece
    /\ \A k \in Kinds \ { currentPiece } :
         afterRotate.rotation[k] = rotation[k]
    /\ \/ /\ afterRotate.rotation[currentPiece] =
               (rotation[currentPiece] + 1) % RotationCount(currentPiece)
          /\ ~paused
          /\ ~Blocked(cells, currentPiece, afterRotate.rotation[currentPiece],
                      currentPosition)
       \/ afterRotate.rotation[currentPiece] = rotation[currentPiece]

\* a piece that was rotated before stands where its next rotation is
\* blocked by a settled cell, and the Rotate event is rolled back
C14_Witness ==
  /\ pc = "loop" /\ ~paused
  /\ RotationCount(currentPiece) = 4
  /\ rotation[currentPiece] = 3
  /\ currentPosition[2] > 0
  /\ \E p \in tetrisPieces[currentPiece + 1].rotations[1] :
       LET x == currentPosition[1] + p[1]
           y == currentPosition[2] + p[2]
       IN  /\ x \in 0 .. (Width - 1) /\ y \in 0 .. (Height - 1)
           /\ cells[y + 1][x + 1] # 0
  /\ afterRotate.rotation = rotation

\* C15 as stated: in every reachable state no cell of the falling piece is
\* a settled cell
C15_NoOverlap == ~Overlaps

\* C15, amended: while the game is not over, no cell of the falling piece
\* is a settled cell (the piece whose entry ends the game covers settled
\* cells and is never merged)
C15_NoOverlapWhilePlaying == ~over => ~Overlaps

\* a rotated piece has come down beside the stack: a settled cell is the
\* left neighbour of one of its cells
C15_Witness ==
  /\ ~over /\ pc = "loop"
  /\ rotation[currentPiece] # 0
  /\ currentPosition[2] > 0
  /\ \E p \in tetrisPieces[currentPiece + 1].rotations[rotation[currentPiece] + 1] :
       LET x == currentPosition[1] + p[1] - 1
           y == currentPosition[2] + p[2]
       IN  /\ x \in 0 .. (Width - 1) /\ y \in 0 .. (Height - 1)
           /\ cells[y + 1][x + 1] # 0

\* C16: at most one ticker is started and not stopped, and it is the one
\* game.ticker holds: no startTicker finds the previous ticker running
C16_OneTicker ==
  /\ liveTickers \in { 0, 1 }
  /\ tickerRunning <=> liveTickers = 1
  /\ paused => liveTickers = 0

\* the ticker was stopped and started again by an anchor that cleared rows
C16_Witness ==
  /\ pc = "loop" /\ ~paused /\ budget < MaxPieces
  /\ Len(rowsCleared) > 0
  /\ dropDelayMillis # dropDelayFor(prevScore)
  /\ liveTickers = 1

\* Game.Move(Down) issued again and again with the same draw, until one of
\* the moves fails and anchors
RECURSIVE moveDownUntilAnchor(_, _)
moveDownUntilAnchor(g, i) ==
  IF g.budget < budget THEN g ELSE moveDownUntilAnchor(Move(g, "Down", i), i)

\* the largest y the falling piece reaches from its position by unit moves
\* down, none of which is blocked
RECURSIVE lowestY(_)
lowestY(y) ==
  IF Blocked(cells, currentPiece, rotation[currentPiece],
             << currentPosition[1], y + 1 >>)
  THEN y ELSE lowestY(y + 1)

\* grid c with the falling piece written into it at row y of its column
withPieceAt(c, y) ==
  [r \in 1 .. Height |->
     [x \in 1 .. Width |->
        IF \E p \in tetrisPieces[currentPiece + 1].rotations[rotation[currentPiece] + 1] :
             /\ currentPosition[1] + p[1] = x - 1
             /\ y + p[2] = r - 1
        THEN tetrisPieces[currentPiece + 1].color
        ELSE c[r][x]]]

\* C19: for every draw of the lookahead, QuickDrop merges the falling piece
\* at its x and rotation index at the lowest row unit moves down reach, and
\* leaves the state that MoveDown events leave when they are issued until
\* one fails and anchors
C19_QuickDropIsRepeatedMoveDown ==
  pc = "loop" /\ ~paused /\ ~over =>
    LET low == withPieceAt(cells, lowestY(currentPosition[2]))
    IN  \A i \in RandIntn(Len(tetrisPieces)) :
          LET q == QuickDrop(G, i)
          IN  q.merged = low /\ q = moveDownUntilAnchor(G, i)

\* a rotated piece at least two rows above its lowest row, where it
\* completes rows
C19_Witness ==
  /\ pc = "loop" /\ ~paused /\ ~over
  /\ rotation[currentPiece] # 0
  /\ lowestY(currentPosition[2]) >= currentPosition[2] + 2
  /\ Len(QuickDrop(G, 0).rowsCleared) >= 2
  /\ QuickDrop(G, 0).score = score + 200

\* C20: whenever Start waits for an event, in the loop or after it, no row
\* of the grid is full, and the last anchor cleared at most four rows, all
\* the full rows of its merged grid
C20_NoFullRowAtWait ==
  pc \in { "loop", "over" } =>
    /\ FullRowsOf(cells) = { }
    /\ Len(rowsCleared) <= 4
    /\ Range(rowsCleared) = { y - 1 : y \in lastFull }

\* an anchor has cleared four rows at once and the loop waits again
C20_Witness ==
  /\ pc = "loop" /\ budget < MaxPieces
  /\ Len(rowsCleared) = 4
  /\ FullRowsOf(merged) = (Height - 3) .. Height
  /\ FullRowsOf(cells) = { }

\* the events between the producer's classification and the end of their
\* processing, oldest first
inFlight ==
  (IF handling.queued THEN << handling.event >> ELSE << >>) \o eventQueue
    \o (IF held # "none" THEN << held >> ELSE << >>)

\* C17: the events the loop has processed, followed by the one it is
\* processing, the ones in the queue and the one the producer is sending,
\* are the inputs in the order they were classified: none is lost, none is
\* processed twice, none overtakes another; the queue never holds more than
\* its capacity
C17_NoEventLost ==
  /\ processed \o inFlight = inputs
  /\ Len(eventQueue) <= QueueCap

\* the loop is handling the MoveDown that anchors the piece and clears a
\* row (the animation), the queue is full and the producer is blocked with
\* one more event
C17_Witness ==
  /\ pc = "handle" /\ ~paused
  /\ handling.event = "MoveDown"
  /\ Len(Move(G, "Down", 0).rowsCleared) > 0
  /\ Move(G, "Down", 0).budget < budget
  /\ Len(eventQueue) = QueueCap
  /\ held # "none"
  /\ eventQueue[1] # eventQueue[2]

\* C18: once the game is over, an input that is classified as Quit makes
\* Start return
C18_QuitEndsStart ==
  [][pc = "over" /\ Len(inputs') > Len(inputs) /\ held' = "Quit" =>
       pc' = "done"]_vars

====
